---- MODULE Spec2Model ----
(***************************************************************************)
(* Model of bb-tools' texture command (src/src/texture.rs): Series         *)
(* construction from a step list, with_blending, activate over every cell  *)
(* of the luminance grid, and to_lua.                                      *)
(*                                                                         *)
(* Two executions of `handle` on the same arguments are advanced together  *)
(* (Runs); they differ only in the value thread_rng() hands to try_from.   *)
(* SmallRng is a deterministic generator: two generators seeded with the   *)
(* same value that have made the same number of draws return the same      *)
(* sample for the same range.  Nothing else is assumed about its output.   *)
(***************************************************************************)
EXTENDS Integers, Naturals, Sequences, FiniteSets, TLC

VARIABLES
    steps,          \* Vec<Step> handed to Series::try_from
    overflowChecks, \* build profile: TRUE = overflow checks on (debug), FALSE = wrapping (release)
    seedArg,        \* --seed, a u64
    blendArg,       \* --blending, a u8
    image,          \* the decoded image as to_luma8 yields it: rows of luminance values
    pc,             \* position inside handle
    status,         \* per run: "running", "ok", or the error or panic that ended it
    genSeed,        \* per run: the local `seed` drawn in try_from
    series,         \* per run: the Series
    grid,           \* per run: the index grid collected so far
    pos,            \* number of cells activate was applied to
    perturbed,      \* per run: activate's local `value` at the lookup
    offset,         \* per run: the sample gen_range returned in activate
    code            \* per run: what to_lua returns

vars == <<steps, overflowChecks, seedArg, blendArg, image, pc, status, genSeed,
          series, grid, pos, perturbed, offset, code>>

Runs == {1, 2}

None == "none"

(***************************************************************************)
(* Integer types                                                           *)
(***************************************************************************)
U8MAX == 255

U8 == 0..U8MAX

\* a u64 is four 16-bit limbs, most significant first
LimbMax == 2^16 - 1

U64Of(n) == <<0, 0, 0, n>>

U64MAX == <<LimbMax, LimbMax, LimbMax, LimbMax>>

U64Pred(x) == <<x[1], x[2], x[3], x[4] - 1>>

RECURSIVE U64LessFrom(_, _, _)
U64LessFrom(x, y, i) ==
    IF i > 4 THEN FALSE
    ELSE IF x[i] # y[i] THEN x[i] < y[i]
    ELSE U64LessFrom(x, y, i + 1)

U64Less(x, y) == U64LessFrom(x, y, 1)

\* the half-open range a..b of u64 values, among the candidates c
U64Range(a, b, c) == {x \in c : ~U64Less(x, a) /\ U64Less(x, b)}

(***************************************************************************)
(* f32 arithmetic.  A finite non-negative f32 is m * 2^(-s) with           *)
(* m < 2^24 (or m = 2^24 right after a round-up).  Every operation rounds  *)
(* its exact result to 24 significant bits, ties to even.  The values that *)
(* occur (at most 255 * 255) are far from overflow and from subnormals.    *)
(***************************************************************************)
RECURSIVE BitLen(_)
BitLen(n) == IF n = 0 THEN 0 ELSE 1 + BitLen(n \div 2)

RoundHalfEven(q, rem, half) ==
    IF rem > half \/ (rem = half /\ q % 2 = 1) THEN q + 1 ELSE q

F32FromInt(n) == [m |-> n, s |-> 0]

\* x * y: the 48-bit product as H * 2^24 + L, then rounded
F32Mul(x, y) ==
    LET ah == x.m \div 4096
        al == x.m % 4096
        bh == y.m \div 4096
        bl == y.m % 4096
        mid == ah * bl + al * bh
        t == al * bl + (mid % 4096) * 4096
        L == t % 16777216
        H == ah * bh + mid \div 4096 + t \div 16777216
        h == BitLen(H)
        q == H * 2^(24 - h) + L \div 2^h
    IN  IF H = 0 THEN [m |-> L, s |-> x.s + y.s]
        ELSE [m |-> RoundHalfEven(q, L % 2^h, 2^(h - 1)), s |-> x.s + y.s - h]

\* long division, one quotient bit at a time until 24 significant bits
RECURSIVE DivBits(_, _, _, _)
DivBits(q, r, b, s) ==
    IF q >= 8388608 THEN [m |-> RoundHalfEven(q, 2 * r, b), s |-> s]
    ELSE DivBits(2 * q + (IF 2 * r >= b THEN 1 ELSE 0),
                 IF 2 * r >= b THEN 2 * r - b ELSE 2 * r, b, s + 1)

F32Div(x, y) ==
    IF x.m = 0 THEN [m |-> 0, s |-> 0]
    ELSE DivBits(x.m \div y.m, x.m % y.m, y.m, x.s - y.s)

F32Floor(x) == x.m \div 2^x.s

F32Ceil(x) == F32Floor(x) + (IF x.m % 2^x.s = 0 THEN 0 ELSE 1)

\* `as u8` on a non-negative float or a usize
SatU8(n) == IF n > U8MAX THEN U8MAX ELSE n

TruncU8(n) == n % (U8MAX + 1)

\* the literal 0.01 as an f32: the f32 nearest to 1/100
F32Lit001 == F32Div(F32FromInt(1), F32FromInt(100))

(***************************************************************************)
(* Step                                                                    *)
(***************************************************************************)
Step(n, a, b) == [name |-> n, range |-> [start |-> a, end |-> b]]

\* RangeInclusive::is_empty and RangeInclusive::contains
RangeIsEmpty(r) == ~(r.start <= r.end)

RangeContains(r, v) == r.start <= v /\ v <= r.end

\* Display for Step
StepToString(st) == <<st.name, ":", st.range.start, "..", st.range.end>>

\* Display for Series
SeriesToString(self) == [i \in 1..Len(self.series) |-> StepToString(self.series[i])]

(***************************************************************************)
(* Series                                                                  *)
(***************************************************************************)
\* SmallRng::seed_from_u64: the generator is known by its seed and by the
\* number of samples taken from it since
SeedFromU64(seed) == [seed |-> seed, draws |-> 0]

\* Rng::gen_range: the generator after handing out one sample
GenRange(rng) == [rng EXCEPT !.draws = @ + 1]

\* `v.range.end() - v.range.start() + 1` on u8: with overflow checks either
\* operation panics when it overflows, without them it wraps
StepWidth(st, checks) ==
    LET d == st.range.end - st.range.start
        w == TruncU8(d + U8MAX + 1) + 1
    IN  [panic |-> checks /\ (d < 0 \/ w > U8MAX), val |-> TruncU8(w)]

\* u8::wrapping_sub
WrappingSub(a, b) == TruncU8(a - b + U8MAX + 1)

\* value.iter().fold(u8::MAX, |sum, v| sum.wrapping_sub(width of v)) over the
\* steps lo..hi in order, starting from acc (the fold of lo..mid feeds mid+1..hi)
RECURSIVE Fold(_, _, _, _, _)
Fold(vec, lo, hi, acc, checks) ==
    IF acc.panic \/ lo > hi THEN acc
    ELSE IF lo = hi
    THEN LET w == StepWidth(vec[lo], checks)
         IN  IF w.panic THEN [panic |-> TRUE, val |-> acc.val]
             ELSE [panic |-> FALSE, val |-> WrappingSub(acc.val, w.val)]
    ELSE LET mid == (lo + hi) \div 2
         IN  Fold(vec, mid + 1, hi, Fold(vec, lo, mid, acc, checks), checks)

\* Series::try_from; `seed` is what thread_rng().gen_range(1..u64::MAX) returns
TryFromSteps(vec, checks, seed) ==
    LET range == Fold(vec, 1, Len(vec), [panic |-> FALSE, val |-> U8MAX], checks)
    IN  IF range.panic THEN [err |-> "overflow", ok |-> None]
        ELSE IF range.val # U8MAX THEN [err |-> "PartialRange", ok |-> None]
        ELSE [err |-> None,
              ok |-> [series |-> vec,
                      rng |-> SeedFromU64(seed),
                      blending |-> [start |-> 0, end |-> 0],
                      seed |-> seed]]

\* an addition that wraps instead of saturating
WrappingAdd(a, b) == TruncU8(a + b)

\* u8::saturating_add
SaturatingAdd(a, b) == IF a + b > U8MAX THEN U8MAX ELSE a + b

\* the guard of the blending pass in activate
BlendingPass(self) == ~RangeIsEmpty(self.blending)

\* self.series.iter().enumerate().find(|(_, v)| v.range.contains(&value)):
\* the positions (from 1) of the steps that contain value; find takes the first
Matches(self, v) == {i \in 1..Len(self.series) : RangeContains(self.series[i].range, v)}

First(S) == CHOOSE i \in S : \A j \in S : i <= j

\* Series::activate, given the sample d the generator returns
ActivateValue(self, v, d) == IF BlendingPass(self) THEN SaturatingAdd(v, d) ELSE v

ActivateRng(self) == IF BlendingPass(self) THEN GenRange(self.rng) ELSE self.rng

\* (index + 1) as u8, index counted from 0
ActivateIndex(i) == TruncU8(i)

SeriesActivate(self, v, d) ==
    LET val == ActivateValue(self, v, d)
        found == Matches(self, val)
    IN  [panic |-> found = {},
         self |-> [self EXCEPT !.rng = ActivateRng(self)],
         value |-> val,
         ret |-> IF found = {} THEN None ELSE ActivateIndex(First(found))]

\* the blending range with_blending computes from the percentage
BlendingEnd(factor) ==
    SatU8(F32Floor(F32Mul(F32FromInt(factor * U8MAX), F32Lit001)))

\* with_blending without the re-seeding of the generator
WithBlendingRngKept(self, seed) == self.rng

\* with_blending storing the seed it is given, 0 included
WithBlendingSeedAlways(self, seed) == seed

WithBlendingRng(self, seed) == IF seed # U64Of(0) THEN SeedFromU64(seed) ELSE self.rng

WithBlendingSeed(self, seed) == IF seed # U64Of(0) THEN seed ELSE self.seed

\* Series::with_blending
SeriesWithBlending(self, seed, factor) ==
    [self EXCEPT !.rng = WithBlendingRng(self, seed),
                 !.seed = WithBlendingSeed(self, seed),
                 !.blending = [start |-> 0, end |-> BlendingEnd(factor)]]

\* Series::blending
SeriesBlending(self) ==
    SatU8(F32Ceil(F32Mul(F32Div(F32FromInt(self.blending.end), F32FromInt(U8MAX)),
                         F32FromInt(100))))

\* Series::as_lua_map: the keys and the names, in order
AsLuaMap(self) == [i \in 1..Len(self.series) |-> <<i, self.series[i].name>>]

(***************************************************************************)
(* Grid                                                                    *)
(***************************************************************************)
\* load_grayscale: one Vec per image row, one entry per pixel of the row
LoadGrayscale(img) == [y \in 1..Len(img) |-> [x \in 1..Len(img[y]) |-> img[y][x]]]

Cells(g) == Len(g) * Len(g[1])

\* the row and column (from 1) of the n-th cell (from 0) that
\* into_iter().map(|v| v.into_iter().map(..)) visits
CellRow(g, n) == (n \div Len(g[1])) + 1

CellCol(g, n) == (n % Len(g[1])) + 1

\* collect(): the index joins the row being collected, a first column opens a row
Collect(g, col, id) ==
    IF col = 1 THEN Append(g, <<id>>)
    ELSE [g EXCEPT ![Len(g)] = Append(@, id)]

\* header_lua
HeaderLua(self) ==
    [seed |-> self.seed, blending |-> SeriesBlending(self), steps |-> SeriesToString(self)]

ToLuaWidth(g) == Len(g)

ToLuaHeight(g) == Len(g[1])

\* to_lua: the fields of the document, in the order they are written
ToLua(g, self) ==
    [header |-> HeaderLua(self),
     width |-> ToLuaWidth(g),
     height |-> ToLuaHeight(g),
     map |-> AsLuaMap(self),
     grid |-> g]

(***************************************************************************)
(* handle                                                                  *)
(***************************************************************************)
Running(r) == status[r] = "running"

\* the u64 values seeds are drawn from
SeedCandidates == {U64Of(0), U64Of(1), U64Pred(U64MAX), U64MAX}

\* thread_rng().gen_range(1..u64::MAX)
GenSeeds == U64Range(U64Of(1), U64MAX, SeedCandidates)

\* handle: parse of --blending and its range check
ParseArgs ==
    /\ pc = "args"
    /\ pc' = IF blendArg > 100 THEN "done" ELSE "try_from"
    /\ status' = IF blendArg > 100 THEN [r \in Runs |-> "BlendingOutOfRange"] ELSE status
    /\ UNCHANGED <<steps, overflowChecks, seedArg, blendArg, image, genSeed, series,
                   grid, pos, perturbed, offset, code>>

\* handle: Series::try_from(steps)?
TryFrom ==
    /\ pc = "try_from"
    /\ \E g \in [Runs -> GenSeeds] :
         LET res == [r \in Runs |-> TryFromSteps(steps, overflowChecks, g[r])]
         IN  /\ series' = [r \in Runs |-> res[r].ok]
             /\ genSeed' = [r \in Runs |-> IF res[r].err = None THEN g[r] ELSE None]
             /\ status' = [r \in Runs |-> IF res[r].err = None THEN "running" ELSE res[r].err]
             /\ pc' = IF \A r \in Runs : res[r].err # None THEN "done" ELSE "with_blending"
    /\ UNCHANGED <<steps, overflowChecks, seedArg, blendArg, image, grid, pos,
                   perturbed, offset, code>>

\* handle: .with_blending(seed, blend)
WithBlending ==
    /\ pc = "with_blending"
    /\ series' = [r \in Runs |-> IF Running(r)
                                 THEN SeriesWithBlending(series[r], seedArg, blendArg)
                                 ELSE series[r]]
    /\ pc' = "activate"
    /\ UNCHANGED <<steps, overflowChecks, seedArg, blendArg, image, status, genSeed,
                   grid, pos, perturbed, offset, code>>

\* what gen_range may return in run r
Samples(r) ==
    IF Running(r) /\ BlendingPass(series[r])
    THEN series[r].blending.start..series[r].blending.end
    ELSE {None}

\* two generators in the same state asked for the same range
SameStream(r1, r2) ==
    /\ Running(r1) /\ Running(r2)
    /\ series[r1].rng = series[r2].rng
    /\ series[r1].blending = series[r2].blending

\* one call of activate in every run still running: the new Series, the value
\* looked up, the grid and the status (bound once, for all the conjuncts)
Activated(d) ==
    LET lum == LoadGrayscale(image)
        col == CellCol(lum, pos)
        v == lum[CellRow(lum, pos)][col]
    IN  [r \in Runs |->
           IF Running(r)
           THEN LET res == SeriesActivate(series[r], v, d[r])
                IN  [self |-> res.self, value |-> res.value, offset |-> d[r],
                     grid |-> IF res.panic THEN grid[r] ELSE Collect(grid[r], col, res.ret),
                     status |-> IF res.panic THEN "unwrap" ELSE status[r]]
           ELSE [self |-> series[r], value |-> perturbed[r], offset |-> offset[r],
                 grid |-> grid[r], status |-> status[r]]]

\* handle: series.activate(v) on the next cell, rows outer, columns inner
Activate ==
    /\ pc = "activate"
    /\ \E d1 \in Samples(1) : \E d2 \in (IF SameStream(1, 2) THEN {d1} ELSE Samples(2)) :
       \E a \in {Activated(<<d1, d2>>)} :
         /\ series' = [r \in Runs |-> a[r].self]
         /\ perturbed' = [r \in Runs |-> a[r].value]
         /\ offset' = [r \in Runs |-> a[r].offset]
         /\ grid' = [r \in Runs |-> a[r].grid]
         /\ status' = [r \in Runs |-> a[r].status]
         /\ pos' = pos + 1
         /\ pc' = IF \A r \in Runs : a[r].status # "running" THEN "done"
                  ELSE IF pos + 1 = Cells(image) THEN "to_lua"
                  ELSE "activate"
    /\ UNCHANGED <<steps, overflowChecks, seedArg, blendArg, image, genSeed, code>>

\* handle: to_lua(&grid, &series), then the write of the file
WriteLua ==
    /\ pc = "to_lua"
    /\ code' = [r \in Runs |-> IF Running(r) THEN ToLua(grid[r], series[r]) ELSE code[r]]
    /\ status' = [r \in Runs |-> IF Running(r) THEN "ok" ELSE status[r]]
    /\ pc' = "done"
    /\ UNCHANGED <<steps, overflowChecks, seedArg, blendArg, image, genSeed, series,
                   grid, pos, perturbed, offset>>

Next == ParseArgs \/ TryFrom \/ WithBlending \/ Activate \/ WriteLua

(***************************************************************************)
(* Arguments                                                               *)
(***************************************************************************)
DirtGrass == <<Step("dirt", 0, 127), Step("grass", 128, 255)>>

\* one step per luminance value
Singles == [i \in 1..(U8MAX + 1) |-> Step("t", i - 1, i - 1)]

StepLists ==
    { DirtGrass,
      <<Step("grass", 128, 255), Step("dirt", 0, 127)>>,
      <<Step("a", 0, 63), Step("b", 64, 191), Step("c", 192, 255)>>,
      <<Step("a", 0, 255)>>,
      <<Step("a", 0, 100), Step("b", 150, 255)>>,
      <<Step("a", 0, 127), Step("b", 128, 254)>>,
      <<Step("a", 0, 127), Step("b", 127, 255)>>,
      <<Step("a", 0, 199), Step("b", 0, 55)>>,
      <<Step("a", 0, 254), Step("b", 0, 254), Step("c", 0, 1)>>,
      <<Step("a", 200, 100), Step("b", 0, 98)>>,
      <<Step("a", 0, 255), Step("b", 5, 4)>> }

Images ==
    { <<<<0, 128>>, <<255, 64>>>>,
      <<<<127, 254>>>>,
      <<<<220>>, <<255>>>> }

\* blending percentages of the pipeline runs: 0..MaxBlend, and one out of range
MaxBlend == 2

Start ==
    /\ pc = "args"
    /\ status = [r \in Runs |-> "running"]
    /\ genSeed = [r \in Runs |-> None]
    /\ series = [r \in Runs |-> None]
    /\ grid = [r \in Runs |-> << >>]
    /\ pos = 0
    /\ perturbed = [r \in Runs |-> None]
    /\ offset = [r \in Runs |-> None]
    /\ code = [r \in Runs |-> None]

Init ==
    /\ steps \in StepLists
    /\ overflowChecks \in BOOLEAN
    /\ seedArg \in {U64Of(0), U64Of(1)}
    /\ blendArg \in (0..MaxBlend) \cup {101}
    /\ image \in Images
    /\ Start

Spec == Init /\ [][Next]_vars

\* as many steps as there are luminance values
InitWide ==
    /\ steps = Singles
    /\ overflowChecks \in BOOLEAN
    /\ seedArg \in {U64Of(0), U64Of(1)}
    /\ blendArg \in 0..1
    /\ image \in {<<<<0, 254>>>>, <<<<255>>>>}
    /\ Start

SpecWide == InitWide /\ [][Next]_vars

\* every value --blending can take
InitBlend ==
    /\ steps = DirtGrass
    /\ overflowChecks = FALSE
    /\ seedArg = U64Of(1)
    /\ blendArg \in U8
    /\ image = <<<<0>>>>
    /\ Start

SpecBlend == InitBlend /\ [][Next]_vars

\* luminance values and percentages spread over their whole ranges
LumStride == 16

LumTail == 8

BlendStride == 25

SatLums == {v \in U8 : v % LumStride = 0 \/ v >= U8MAX - LumTail}

SatBlends == {p \in 0..100 : p % BlendStride = 0}

InitSat ==
    /\ steps = DirtGrass
    /\ overflowChecks = FALSE
    /\ seedArg = U64Of(1)
    /\ blendArg \in SatBlends
    /\ image \in {<<<<v>>>> : v \in SatLums}
    /\ Start

SpecSat == InitSat /\ [][Next]_vars

(***************************************************************************)
(* Properties                                                              *)
(***************************************************************************)
\* try_from has returned in every run
Constructed ==
    /\ pc \notin {"args", "try_from"}
    /\ \A r \in Runs : status[r] # "BlendingOutOfRange"

\* try_from returned a Series in run r
Built(r) == Constructed /\ status[r] \in {"running", "ok", "unwrap"}

\* run r wrote its document
Wrote(r) == status[r] = "ok"

\* the luminance activate was last applied to
LastLum == LET n == pos - 1 IN image[CellRow(image, n)][CellCol(image, n)]

\* the index activate last returned in run r
LastIndex(r) == LET row == grid[r][Len(grid[r])] IN row[Len(row)]

Width(st) == st.range.end - st.range.start + 1

RECURSIVE SumWidths(_, _, _)
SumWidths(vec, lo, hi) ==
    IF lo > hi THEN 0
    ELSE IF lo = hi THEN Width(vec[lo])
    ELSE LET mid == (lo + hi) \div 2
         IN  SumWidths(vec, lo, mid) + SumWidths(vec, mid + 1, hi)

Overlap(a, b) ==
    /\ a.start <= a.end /\ b.start <= b.end
    /\ a.start <= b.end /\ b.start <= a.end

PairwiseDisjoint(vec) ==
    \A i, j \in 1..Len(vec) : i < j => ~Overlap(vec[i].range, vec[j].range)

\* pairwise disjoint ranges whose widths sum to 256
ExactPartition(vec) ==
    SumWidths(vec, 1, Len(vec)) = U8MAX + 1 /\ PairwiseDisjoint(vec)

HasReversed(vec) == \E i \in 1..Len(vec) : vec[i].range.start > vec[i].range.end

\* C1: Series::try_from succeeds if and only if the steps' ranges are pairwise
\* disjoint and their widths sum to 256; every other step list fails with
\* PartialRange.
C1_SucceedsIffPartition ==
    Constructed =>
        \A r \in Runs :
            IF ExactPartition(steps) THEN Built(r)
            ELSE ~Built(r) /\ status[r] = "PartialRange"

\* C2: on every Series try_from returned, activate completes and returns an
\* index in 1..n naming the one and only step whose range contains the
\* perturbed value.
C2_ActivateTotal ==
    \A r \in Runs :
        (Built(r) /\ pos > 0) =>
            /\ status[r] # "unwrap"
            /\ LastIndex(r) \in 1..Len(series[r].series)
            /\ Matches(series[r], perturbed[r]) = {LastIndex(r)}

\* C3: with blending percentage 0 and steps that partition [0,255], activate(v)
\* returns 1 + the position of the unique step whose range contains v.
C3_BlendingOffLookup ==
    \A r \in Runs :
        (Built(r) /\ pos > 0 /\ blendArg = 0 /\ ExactPartition(steps)) =>
            /\ status[r] # "unwrap"
            /\ \A i \in 1..Len(steps) :
                 RangeContains(steps[i].range, LastLum) => LastIndex(r) = i

\* C4: two runs on the same steps, the same nonzero seed, the same percentage
\* and the same image end alike, index grid and document: the generator is the
\* one seeded from the given seed, one draw per cell, rows outer, columns inner.
C4_Determinism ==
    seedArg # U64Of(0) =>
        /\ status[1] = status[2]
        /\ grid[1] = grid[2]
        /\ code[1] = code[2]
        /\ \A r \in Runs :
             (Running(r) /\ pc \in {"activate", "to_lua"}) =>
                 /\ series[r].rng = [seed |-> seedArg, draws |-> pos]
                 /\ pos > 0 => /\ Len(grid[r]) = CellRow(image, pos - 1)
                               /\ Len(grid[r][Len(grid[r])]) = CellCol(image, pos - 1)

\* both runs wrote a document, with noise added, from different generated seeds
C4_Witness ==
    /\ pc = "done"
    /\ seedArg # U64Of(0)
    /\ genSeed[1] # genSeed[2]
    /\ status[1] = "ok" /\ status[2] = "ok"
    /\ offset[1] > 0

\* C5: the document of an image with H rows of W cells says width = W and
\* height = H, and its grid has H rows of W indices.
C5_Dimensions ==
    \A r \in Runs :
        Wrote(r) =>
            /\ code[r].width = Len(image[1])
            /\ code[r].height = Len(image)
            /\ Len(code[r].grid) = Len(image)
            /\ \A y \in 1..Len(image) : Len(code[r].grid[y]) = Len(image[y])

\* C6: after try_from and with_blending(s, p) the stored seed is the one the
\* generator was last seeded with and is not 0: s if s is not 0, else the seed
\* generated at construction, which lies in 1..2^64-2, generator untouched.
C6_StoredSeed ==
    \A r \in Runs :
        (Built(r) /\ pc \in {"activate", "to_lua", "done"}) =>
            /\ series[r].seed = series[r].rng.seed
            /\ series[r].seed # U64Of(0)
            /\ seedArg # U64Of(0) =>
                 /\ series[r].seed = seedArg
                 /\ pos = 0 => series[r].rng = SeedFromU64(seedArg)
            /\ seedArg = U64Of(0) =>
                 /\ series[r].seed = genSeed[r]
                 /\ pos = 0 => series[r].rng = SeedFromU64(genSeed[r])
                 /\ ~U64Less(genSeed[r], U64Of(1))
                 /\ U64Less(genSeed[r], U64MAX)

\* with_blending was given seed 0 after two different seeds were generated
C6_Witness ==
    /\ pc = "activate" /\ pos = 0
    /\ seedArg = U64Of(0)
    /\ Built(1) /\ Built(2)
    /\ genSeed[1] # genSeed[2]
    /\ series[1].seed = U64Pred(U64MAX)

\* C7: the value looked up is min(255, v + d) for the drawn offset d in 0..K:
\* never below v, never above 255, and 255 when v is 255.
C7_Saturation ==
    \A r \in Runs :
        (Built(r) /\ pos > 0) =>
            /\ offset[r] \in 0..series[r].blending.end
            /\ perturbed[r] = (IF LastLum + offset[r] > U8MAX THEN U8MAX
                               ELSE LastLum + offset[r])
            /\ perturbed[r] >= LastLum
            /\ perturbed[r] <= U8MAX
            /\ LastLum = U8MAX => perturbed[r] = U8MAX

\* a luminance below 255 pushed past 255 by the offset
C7_Witness ==
    /\ pos > 0 /\ Built(1)
    /\ LastLum < U8MAX
    /\ LastLum + offset[1] > U8MAX + 1
    /\ perturbed[1] = U8MAX

\* C8: a step list with a reversed range (start > end) is rejected by
\* try_from with PartialRange: never accepted, never an arithmetic panic.
C8_ReversedRejected ==
    (Constructed /\ HasReversed(steps)) =>
        \A r \in Runs : ~Built(r) /\ status[r] = "PartialRange"

\* C9: for p in 0..100 with_blending sets the range to 0..floor(p * 255 / 100)
\* and the percentage blending() reports in the header is p again.
C9_BlendingRoundTrip ==
    \A r \in Runs :
        Wrote(r) =>
            /\ series[r].blending = [start |-> 0, end |-> (blendArg * U8MAX) \div 100]
            /\ code[r].header.blending = blendArg

\* C10: with the range 0..0 activate takes no draw, the generator stays as it
\* was seeded; only with K > 0 does every call take exactly one.
C10_NoDrawWhenDisabled ==
    \A r \in Runs :
        (Built(r) /\ status[r] # "unwrap" /\ pc \in {"activate", "to_lua", "done"}) =>
            series[r].rng.draws = (IF series[r].blending.end = 0 THEN 0 ELSE pos)

====
